---- MODULE Spec2Model ----
(***************************************************************************)
(* A model of tech_talk_downloader (src/src/main.rs): the pipeline of      *)
(* main (fetch page, parse_video, download_video, parse_transcript,       *)
(* generate_srt_file, embed_subtitle) over a file system that persists    *)
(* from one run of the program to the next.                                *)
(*                                                                         *)
(* Three specifications:                                                   *)
(*   Spec          main, run up to MaxRuns times on the same arguments     *)
(*   SpecResolver  parse_video on every anchor list and both tiers         *)
(*   SpecSubtitle  generate_srt_file called twice on one destination       *)
(***************************************************************************)
EXTENDS Integers, Sequences, FiniteSets

VARIABLES
    fs,               \* the file system: path -> [exists, data]
    path,             \* Cli.path, the output directory argument
    overflow_checks,  \* build profile: TRUE = debug (overflow panics), FALSE = release (wraps)
    html,             \* the parsed page: [anchors, sentences]
    video_type,       \* the tier handed to parse_video
    pc,               \* position of the program
    link,             \* main's `link`
    video_name,       \* main's `video_name`
    srt_name,         \* main's `srt_name`
    times,            \* main's `times`
    texts,            \* main's `texts`
    lines,            \* generate_srt_file's `lines` as last built
    total_size,       \* download_video's `total_size`
    downloaded,       \* download_video's `downloaded`
    received,         \* ghost: sum of the lengths of the chunks the loop has handled
    nchunks,          \* ghost: number of chunks the loop has handled
    gets,             \* ghost: GET requests download_video issued in this run
    run,              \* ghost: number of the current run of the program
    started,          \* ghost: the pipeline steps started in this run, in order
    completed,        \* ghost: the pipeline steps that completed successfully in this run
    mux,              \* the arguments embed_subtitle handed to the mux tool
    dl,               \* ghost: how download_video ended in this run: [kind, url]
    prev              \* ghost: how download_video ended in the previous run, and the file it left

vars == <<fs, path, overflow_checks, html, video_type, pc, link, video_name, srt_name,
          times, texts, lines, total_size, downloaded, received, nchunks, gets, run,
          started, completed, mux, dl, prev>>

(***************************************************************************)
(* Bounds of the model.                                                    *)
(***************************************************************************)
\* i64 is modelled as two's complement of TimeBits bits (TLC's own integers
\* are 32 bit wide), so that the top of the range is a value the model holds.
TimeBits == 14
MaxAnchors == 2
MaxEntries == 2
MaxChunks == 2
MaxChunkLen == 2
MaxTotal == 2
MaxRuns == 2

\* The fallback duration of the last cue, in milliseconds.
LastCueMs == 3000

I64_MAX == 2 ^ (TimeBits - 1) - 1

I64_MIN == 0 - 2 ^ (TimeBits - 1)

\* Two's complement wrap of an integer into the i64 range.
WrapI64(x) == ((x - I64_MIN) % (2 ^ TimeBits)) + I64_MIN

\* std::cmp::min
Min(a, b) == IF a <= b THEN a ELSE b

(***************************************************************************)
(* Names, links and paths.  A file name is the sequence of its             *)
(* dot-separated parts: <<"talk", "mp4">> is talk.mp4.                     *)
(***************************************************************************)
VideoNames == { <<"talk", "mp4">>, <<"talk", "hd", "mp4">>, <<"talk", "srt">> }

\* main: video_name.split(".").nth(0).unwrap().to_owned() + ".srt"
SrtNameOf(name) == <<name[1], "srt">>

\* embed_subtitle's fixed output file name
OutputName == <<"output", "mp4">>

FileNames == VideoNames \cup { SrtNameOf(n) : n \in VideoNames } \cup { OutputName }

\* Directories.  "cwd" is the process's working directory; a relative file
\* name resolves against it.  "out" is any other directory.
Dirs == { "cwd", "out" }

Paths == Dirs \X FileNames

\* PathBuf::from(dir).push(name)
Join(dir, name) == <<dir, name>>

\* How the operating system resolves a bare file name.
ResolveRelative(name) == <<"cwd", name>>

NoFile == [exists |-> FALSE, data |-> <<>>]

File(data) == [exists |-> TRUE, data |-> data]

\* Path::exists
Exists(fsys, p) == fsys[p].exists

\* A link is the text of an href: an absolute URL with the segments of its
\* path, a relative reference (which Url::parse rejects), or the empty string.
EmptyLink == [abs |-> FALSE, segs |-> <<>>]

AbsUrl(name) == [abs |-> TRUE, segs |-> <<<<"videos">>, name>>]

RelUrl(name) == [abs |-> FALSE, segs |-> <<<<"videos">>, name>>]

\* Url::parse(url): Ok exactly for an absolute URL
UrlParses(l) == l.abs

\* u.path().split("/").last().unwrap()
FileNameOf(l) == l.segs[Len(l.segs)]

(***************************************************************************)
(* parse_video                                                             *)
(***************************************************************************)
\* The marker substring of a tier, as a sequence of characters.
Marker(vt) == IF vt = "HD" THEN <<"H", "D">> ELSE <<"S", "D">>

\* str::contains
Contains(s, m) ==
    \E i \in 0..(Len(s) - Len(m)) : SubSeq(s, i + 1, i + Len(m)) = m

RECURSIVE parse_video_from(_, _, _)
\* The loop of parse_video from anchor i on: break at the first anchor whose
\* inner HTML contains the marker; its href is unwrapped (a panic without one).
parse_video_from(anchors, vt, i) ==
    IF i > Len(anchors) THEN [panic |-> FALSE, link |-> EmptyLink]
    ELSE IF Contains(anchors[i].label, Marker(vt))
         THEN IF anchors[i].hasHref
              THEN [panic |-> FALSE, link |-> anchors[i].href]
              ELSE [panic |-> TRUE, link |-> EmptyLink]
         ELSE parse_video_from(anchors, vt, i + 1)

\* parse_video without its `break`: the last matching anchor wins.
parse_video_last_match(anchors, vt) ==
    LET m == { i \in 1..Len(anchors) : Contains(anchors[i].label, Marker(vt)) } IN
    IF m = {} THEN [panic |-> FALSE, link |-> EmptyLink]
    ELSE LET i == CHOOSE k \in m : \A j \in m : j <= k IN
         IF anchors[i].hasHref THEN [panic |-> FALSE, link |-> anchors[i].href]
         ELSE [panic |-> TRUE, link |-> EmptyLink]

parse_video(anchors, vt) == parse_video_from(anchors, vt, 1)

(***************************************************************************)
(* parse_transcript                                                        *)
(***************************************************************************)
\* The data-start attribute of a sentence's first child: absent, not a
\* number, "inf" (which f64's parser accepts), or a number of seconds given
\* here in tenths of a millisecond.
NoAttr == [kind |-> "missing", tenths |-> 0]

BadAttr == [kind |-> "text", tenths |-> 0]

InfAttr == [kind |-> "inf", tenths |-> 0]

Seconds(tenths) == [kind |-> "num", tenths |-> tenths]

\* A span.sentence: its first child is an element or it is not.
Sentence(start, text) == [child |-> TRUE, start |-> start, text |-> text]

NoChild == [child |-> FALSE, start |-> NoAttr, text |-> ""]

\* first_child().unwrap(), ElementRef::wrap(..).unwrap(), attr(..).unwrap()
\* and parse().expect(..): each panics on the sentence it cannot read.
SentencePanics(s) == ~s.child \/ s.start.kind \in {"missing", "text"}

\* (time_float * 1000.0) as i64: truncation, saturating at the ends of i64
ParseTime(a) ==
    IF a.kind = "inf" THEN I64_MAX
    ELSE Min(a.tenths \div 10, I64_MAX)

parse_transcript(sentences) ==
    IF \E i \in 1..Len(sentences) : SentencePanics(sentences[i])
    THEN [panic |-> TRUE, times |-> <<>>, texts |-> <<>>]
    ELSE [panic |-> FALSE,
          times |-> [i \in 1..Len(sentences) |-> ParseTime(sentences[i].start)],
          texts |-> [i \in 1..Len(sentences) |-> sentences[i].text]]

(***************************************************************************)
(* generate_srt_file                                                       *)
(***************************************************************************)
\* start_time + 3000 on i64: wraps in a build without overflow checks
AddLastCue(start_time) == WrapI64(start_time + LastCueMs)

\* The end time of line i: the next entry's time, else start + 3000.
EndTime(ts, i) ==
    IF i + 1 <= Len(ts) THEN ts[i + 1] ELSE AddLastCue(ts[i])

\* Line i cannot be built: times.get(i).unwrap() on a missing time, or the
\* addition overflows in a build with overflow checks.
LinePanics(ts, i, checks) ==
    \/ i > Len(ts)
    \/ i = Len(ts) /\ checks /\ ts[i] + LastCueMs > I64_MAX

BuildLines(ts, xs, checks) ==
    IF \E i \in 1..Len(xs) : LinePanics(ts, i, checks)
    THEN [panic |-> TRUE, lines |-> <<>>]
    ELSE [panic |-> FALSE,
          lines |-> [i \in 1..Len(xs) |->
                       [start |-> ts[i], end |-> EndTime(ts, i), text |-> xs[i]]]]

\* SrtFile::create(lines).to_data(): the cues, numbered from 1, in order.
SrtData(ls) ==
    [i \in 1..Len(ls) |->
       [index |-> i, start |-> ls[i].start, end |-> ls[i].end, text |-> ls[i].text]]

\* What fs::write can leave behind when it fails: no file, or the file
\* created and cut short.
FailedWrites(fsys, p, data) ==
    { fsys } \cup { [fsys EXCEPT ![p] = File(SubSeq(data, 1, k))] : k \in 0..(Len(data) - 1) }

\* generate_srt_file without its `if path.exists() { return }`.
generate_srt_file_overwrites(fsys, p, ts, xs, checks) ==
    LET b == BuildLines(ts, xs, checks) IN
    IF b.panic
    THEN { [panic |-> TRUE, fs |-> fsys, lines |-> <<>>] }
    ELSE { [panic |-> FALSE, fs |-> [fsys EXCEPT ![p] = File(SrtData(b.lines))],
            lines |-> b.lines] }

\* The outcomes of generate_srt_file(p, ts, xs).
generate_srt_file(fsys, p, ts, xs, checks) ==
    IF Exists(fsys, p)
    THEN { [panic |-> FALSE, fs |-> fsys, lines |-> <<>>] }
    ELSE LET b == BuildLines(ts, xs, checks) IN
         IF b.panic
         THEN { [panic |-> TRUE, fs |-> fsys, lines |-> <<>>] }
         ELSE { [panic |-> FALSE, fs |-> [fsys EXCEPT ![p] = File(SrtData(b.lines))],
                 lines |-> b.lines] }
              \cup { [panic |-> TRUE, fs |-> f, lines |-> b.lines] :
                       f \in FailedWrites(fsys, p, SrtData(b.lines)) }

(***************************************************************************)
(* State shared by the specifications.                                     *)
(***************************************************************************)
SeqsUpTo(S, n) == UNION { [1..k -> S] : k \in 0..n }

EmptyFs == [p \in Paths |-> NoFile]

NoMux == [called |-> FALSE, video |-> <<"cwd", <<>>>>, subtitle |-> <<"cwd", <<>>>>]

\* How a call ended: its kind, and the URL its error message names.
Outcome(kind, url) == [kind |-> kind, url |-> url]

NoOutcome == Outcome("none", EmptyLink)

NoPrev == [kind |-> "none", file |-> NoFile]

\* The variables of one run of main, as they are when the process starts.
FreshRun ==
    /\ link = EmptyLink
    /\ video_name = <<>>
    /\ srt_name = <<>>
    /\ times = <<>>
    /\ texts = <<>>
    /\ lines = <<>>
    /\ total_size = 0
    /\ downloaded = 0
    /\ received = 0
    /\ nchunks = 0
    /\ gets = 0
    /\ started = <<>>
    /\ completed = {}
    /\ mux = NoMux
    /\ dl = NoOutcome

(***************************************************************************)
(* SpecResolver: parse_video on every list of up to MaxAnchors anchors.    *)
(***************************************************************************)
AnchorLabels == { <<"H", "D">>, <<"S", "D">>, <<"S", "H", "D">>, <<"D", "H">> }

AnchorHrefs == { AbsUrl(<<"talk", "mp4">>), AbsUrl(<<"talk", "hd", "mp4">>) }

Anchor(label, href) == [label |-> label, hasHref |-> TRUE, href |-> href]

BareAnchor(label) == [label |-> label, hasHref |-> FALSE, href |-> EmptyLink]

Anchors ==
    { Anchor(l, h) : l \in AnchorLabels, h \in AnchorHrefs }
    \cup { BareAnchor(l) : l \in AnchorLabels }

InitResolver ==
    /\ html \in { [anchors |-> a, sentences |-> <<>>] : a \in SeqsUpTo(Anchors, MaxAnchors) }
    /\ video_type \in { "HD", "SD" }
    /\ pc = "resolver_call"
    /\ fs = EmptyFs
    /\ path = "cwd"
    /\ overflow_checks = TRUE
    /\ run = 1
    /\ prev = NoPrev
    /\ FreshRun

\* A call parse_video(&html, &video_type).
ResolverCall ==
    /\ pc = "resolver_call"
    /\ LET r == parse_video(html.anchors, video_type) IN
         /\ link' = r.link
         /\ pc' = IF r.panic THEN "panicked" ELSE "returned"
    /\ UNCHANGED <<fs, path, overflow_checks, html, video_type, video_name, srt_name,
                   times, texts, lines, total_size, downloaded, received, nchunks, gets,
                   run, started, completed, mux, dl, prev>>

NextResolver == ResolverCall

SpecResolver == InitResolver /\ [][NextResolver]_vars

(***************************************************************************)
(* SpecSubtitle: generate_srt_file called twice on one destination, each   *)
(* time with any entries of up to MaxEntries sentences.                    *)
(***************************************************************************)
SubtitleTimes == { 1000, 2500, I64_MAX }

SubtitleTexts == { "Hello", "World" }

SubtitleEntries == SeqsUpTo(SubtitleTimes \X SubtitleTexts, MaxEntries)

\* A file some earlier program left at the destination.
ForeignFile == File(<<[index |-> 0, start |-> 0, end |-> 0, text |-> "other"]>>)

SubtitleDest == Join(path, srt_name)

InitSubtitle ==
    /\ path = "out"
    /\ srt_name = <<"talk", "srt">>
    /\ fs \in { EmptyFs, [EmptyFs EXCEPT ![<<"out", <<"talk", "srt">>>>] = ForeignFile] }
    /\ overflow_checks \in BOOLEAN
    /\ html = [anchors |-> <<>>, sentences |-> <<>>]
    /\ video_type = "HD"
    /\ pc = "subtitle_first"
    /\ run = 1
    /\ prev = NoPrev
    /\ link = EmptyLink
    /\ video_name = <<>>
    /\ times = <<>>
    /\ texts = <<>>
    /\ lines = <<>>
    /\ total_size = 0
    /\ downloaded = 0
    /\ received = 0
    /\ nchunks = 0
    /\ gets = 0
    /\ started = <<>>
    /\ completed = {}
    /\ mux = NoMux
    /\ dl = NoOutcome

\* A call generate_srt_file(&dest, &times, &texts).  prev.file keeps the
\* destination as the call found it; dl tells how the call ended.
SubtitleCall ==
    /\ pc \in { "subtitle_first", "subtitle_second" }
    /\ \E es \in SubtitleEntries :
         /\ times' = [i \in 1..Len(es) |-> es[i][1]]
         /\ texts' = [i \in 1..Len(es) |-> es[i][2]]
         /\ \E o \in generate_srt_file(fs, SubtitleDest, times', texts', overflow_checks) :
              /\ fs' = o.fs
              /\ lines' = o.lines
              /\ dl' = Outcome(IF o.panic THEN "panicked" ELSE "returned", EmptyLink)
    /\ prev' = [kind |-> dl.kind, file |-> fs[SubtitleDest]]
    /\ pc' = IF pc = "subtitle_first" THEN "subtitle_second" ELSE "subtitle_end"
    /\ UNCHANGED <<path, overflow_checks, html, video_type, link, video_name, srt_name,
                   total_size, downloaded, received, nchunks, gets, run, started,
                   completed, mux>>

NextSubtitle == SubtitleCall

SpecSubtitle == InitSubtitle /\ [][NextSubtitle]_vars

(***************************************************************************)
(* Spec: main, run up to MaxRuns times with the same arguments against a   *)
(* page that does not change; the file system persists between the runs.   *)
(***************************************************************************)
PipelineOrder == <<"fetch", "resolve", "download", "derive", "parse", "generate", "mux">>

PipelineAnchorLists ==
    { <<>>,
      << Anchor(<<"S", "D">>, AbsUrl(<<"talk", "mp4">>)),
         Anchor(<<"H", "D">>, AbsUrl(<<"talk", "hd", "mp4">>)),
         Anchor(<<"S", "H", "D">>, AbsUrl(<<"talk", "mp4">>)) >>,
      << Anchor(<<"H", "D">>, AbsUrl(<<"talk", "srt">>)) >>,
      << BareAnchor(<<"H", "D">>) >>,
      << Anchor(<<"H", "D">>, RelUrl(<<"talk", "mp4">>)) >> }

PipelineSentenceLists ==
    { <<>>,
      << Sentence(Seconds(10000), "Hello"), Sentence(Seconds(25009), "World") >>,
      << Sentence(Seconds(25009), "Hello"), Sentence(Seconds(10000), "World") >>,
      << Sentence(Seconds(10000), "Hello"), Sentence(InfAttr, "World") >>,
      << Sentence(Seconds(10000), "Hello"), NoChild >>,
      << Sentence(NoAttr, "Hello") >>,
      << Sentence(BadAttr, "Hello") >> }

Init ==
    /\ html \in { [anchors |-> a, sentences |-> s] :
                    a \in PipelineAnchorLists, s \in PipelineSentenceLists }
    /\ path \in Dirs
    /\ overflow_checks \in BOOLEAN
    /\ video_type = "HD"
    /\ fs = EmptyFs
    /\ pc = "fetch"
    /\ run = 1
    /\ prev = NoPrev
    /\ FreshRun

\* main: the page request and res.text(), each returned with `?`.
FetchPage ==
    /\ pc = "fetch"
    /\ started' = Append(started, "fetch")
    /\ \E ok \in BOOLEAN :
         IF ok THEN pc' = "resolve" /\ completed' = completed \cup {"fetch"}
         ELSE pc' = "failed" /\ UNCHANGED completed
    /\ UNCHANGED <<fs, path, overflow_checks, html, video_type, link, video_name,
                   srt_name, times, texts, lines, total_size, downloaded, received,
                   nchunks, gets, run, mux, dl, prev>>

\* main: let link = parse_video(&html, &VideoType::HD)
ResolveLink ==
    /\ pc = "resolve"
    /\ started' = Append(started, "resolve")
    /\ LET r == parse_video(html.anchors, video_type) IN
         IF r.panic THEN pc' = "failed" /\ UNCHANGED <<link, completed>>
         ELSE /\ link' = r.link
              /\ completed' = completed \cup {"resolve"}
              /\ pc' = "download"
    /\ UNCHANGED <<fs, path, overflow_checks, html, video_type, video_name, srt_name,
                   times, texts, lines, total_size, downloaded, received, nchunks,
                   gets, run, mux, dl, prev>>

(***************************************************************************)
(* download_video                                                          *)
(***************************************************************************)
\* saved_path: the directory argument joined with the URL's last segment
SavedPath == Join(path, FileNameOf(link))

\* download_video without its existence check.
ShortCircuits_Never(fsys, p) == FALSE

\* if saved_path.exists() { return Ok(file_name) }
ShortCircuits(fsys, p) == Exists(fsys, p)

\* main going on after an Err of download_video.
AfterDownloadError_Ignored == "derive"

\* main's .unwrap() of download_video's result: an Err ends the run.
AfterDownloadError == "failed"

\* download_video with File::create moved before the content length check.
RequestOutcomes_CreateFirst(fsys, p, url) ==
    { [dl |-> Outcome("err_get", url), fs |-> fsys, total |-> 0],
      [dl |-> Outcome("err_length", url), fs |-> [fsys EXCEPT ![p] = File(<<>>)], total |-> 0],
      [dl |-> Outcome("err_create", EmptyLink), fs |-> fsys, total |-> 0] }
    \cup { [dl |-> NoOutcome, fs |-> [fsys EXCEPT ![p] = File(<<>>)], total |-> t] :
             t \in 0..MaxTotal }

\* What the request, the content length and File::create can come to, for
\* a destination that does not exist yet: an Err before the file is made,
\* or the file created empty and the chunk loop entered with a total.
RequestOutcomes(fsys, p, url) ==
    { [dl |-> Outcome("err_get", url), fs |-> fsys, total |-> 0],
      [dl |-> Outcome("err_length", url), fs |-> fsys, total |-> 0],
      [dl |-> Outcome("err_create", EmptyLink), fs |-> fsys, total |-> 0] }
    \cup { [dl |-> NoOutcome, fs |-> [fsys EXCEPT ![p] = File(<<>>)], total |-> t] :
             t \in 0..MaxTotal }

\* The counter without its cap.
Progress_Uncapped(count, len, total) == count + len

\* let new = min(downloaded + (chunk.len() as u64), total_size)
Progress(count, len, total) == Min(count + len, total)

\* The bytes of chunk number k, of length len.
Chunk(k, len) == [i \in 1..len |-> [chunk |-> k]]

\* file.write_all(&chunk)
WriteAll(f, bytes) == File(f.data \o bytes)

\* download_video removing the partial file on an error.
AbortedFile_Removed(f) == NoFile

\* The file a failed chunk read or write leaves: what was written so far
\* (download_video removes nothing on its way out).
AbortedFile(f) == f

\* Url::parse(url).unwrap() on a link that is no absolute URL.
DownloadBadUrl ==
    /\ pc = "download"
    /\ ~UrlParses(link)
    /\ started' = Append(started, "download")
    /\ dl' = Outcome("panic_url", EmptyLink)
    /\ pc' = "failed"
    /\ UNCHANGED <<fs, path, overflow_checks, html, video_type, link, video_name,
                   srt_name, times, texts, lines, total_size, downloaded, received,
                   nchunks, gets, run, completed, mux, prev>>

\* The destination exists: Ok(file_name) without a request.
DownloadExisting ==
    /\ pc = "download"
    /\ UrlParses(link)
    /\ ShortCircuits(fs, SavedPath)
    /\ started' = Append(started, "download")
    /\ video_name' = FileNameOf(link)
    /\ dl' = Outcome("existing", EmptyLink)
    /\ completed' = completed \cup {"download"}
    /\ pc' = "derive"
    /\ UNCHANGED <<fs, path, overflow_checks, html, video_type, link, srt_name, times,
                   texts, lines, total_size, downloaded, received, nchunks, gets, run,
                   mux, prev>>

\* client.get(url).send(), content_length(), File::create(&saved_path)
DownloadRequest ==
    /\ pc = "download"
    /\ UrlParses(link)
    /\ ~ShortCircuits(fs, SavedPath)
    /\ started' = Append(started, "download")
    /\ gets' = gets + 1
    /\ \E o \in RequestOutcomes(fs, SavedPath, link) :
         /\ fs' = o.fs
         /\ dl' = o.dl
         /\ total_size' = o.total
         /\ pc' = IF o.dl = NoOutcome THEN "chunks" ELSE AfterDownloadError
    /\ downloaded' = 0
    /\ UNCHANGED <<path, overflow_checks, html, video_type, link, video_name, srt_name,
                   times, texts, lines, received, nchunks, run, completed, mux, prev>>

\* One turn of the chunk loop: a chunk arrives, is written, is counted.
ChunkReceived ==
    /\ pc = "chunks"
    /\ nchunks < MaxChunks
    /\ \E len \in 0..MaxChunkLen :
         /\ fs' = [fs EXCEPT ![SavedPath] = WriteAll(@, Chunk(nchunks + 1, len))]
         /\ downloaded' = Progress(downloaded, len, total_size)
         /\ received' = received + len
    /\ nchunks' = nchunks + 1
    /\ UNCHANGED <<path, overflow_checks, html, video_type, pc, link, video_name,
                   srt_name, times, texts, lines, total_size, gets, run, started,
                   completed, mux, dl, prev>>

\* stream.next() yields an Err: "Error while downloading file".
ChunkReadError ==
    /\ pc = "chunks"
    /\ fs' = [fs EXCEPT ![SavedPath] = AbortedFile(@)]
    /\ dl' = Outcome("err_read", EmptyLink)
    /\ pc' = AfterDownloadError
    /\ UNCHANGED <<path, overflow_checks, html, video_type, link, video_name, srt_name,
                   times, texts, lines, total_size, downloaded, received, nchunks, gets,
                   run, started, completed, mux, prev>>

\* write_all fails after k bytes of the chunk: "Error while writing to file".
ChunkWriteError ==
    /\ pc = "chunks"
    /\ nchunks < MaxChunks
    /\ \E len \in 1..MaxChunkLen : \E k \in 0..(len - 1) :
         fs' = [fs EXCEPT ![SavedPath] =
                  AbortedFile(WriteAll(@, SubSeq(Chunk(nchunks + 1, len), 1, k)))]
    /\ dl' = Outcome("err_write", EmptyLink)
    /\ pc' = AfterDownloadError
    /\ UNCHANGED <<path, overflow_checks, html, video_type, link, video_name, srt_name,
                   times, texts, lines, total_size, downloaded, received, nchunks, gets,
                   run, started, completed, mux, prev>>

\* The stream ends: Ok(file_name).
StreamEnd ==
    /\ pc = "chunks"
    /\ video_name' = FileNameOf(link)
    /\ dl' = Outcome("ok", EmptyLink)
    /\ completed' = completed \cup {"download"}
    /\ pc' = "derive"
    /\ UNCHANGED <<fs, path, overflow_checks, html, video_type, link, srt_name, times,
                   texts, lines, total_size, downloaded, received, nchunks, gets, run,
                   started, mux, prev>>

(***************************************************************************)
(* The rest of main.                                                       *)
(***************************************************************************)
\* let srt_name = ...; srt_path.push(&srt_name)
DeriveSrtName ==
    /\ pc = "derive"
    /\ started' = Append(started, "derive")
    /\ srt_name' = SrtNameOf(video_name)
    /\ completed' = completed \cup {"derive"}
    /\ pc' = "parse"
    /\ UNCHANGED <<fs, path, overflow_checks, html, video_type, link, video_name, times,
                   texts, lines, total_size, downloaded, received, nchunks, gets, run,
                   mux, dl, prev>>

\* parse_transcript(&html, &mut times, &mut texts)
ParseTranscriptStep ==
    /\ pc = "parse"
    /\ started' = Append(started, "parse")
    /\ LET r == parse_transcript(html.sentences) IN
         IF r.panic THEN pc' = "failed" /\ UNCHANGED <<times, texts, completed>>
         ELSE /\ times' = r.times
              /\ texts' = r.texts
              /\ completed' = completed \cup {"parse"}
              /\ pc' = "generate"
    /\ UNCHANGED <<fs, path, overflow_checks, html, video_type, link, video_name,
                   srt_name, lines, total_size, downloaded, received, nchunks, gets,
                   run, mux, dl, prev>>

\* generate_srt_file(&srt_path, &times, &texts)
GenerateSubtitle ==
    /\ pc = "generate"
    /\ started' = Append(started, "generate")
    /\ \E o \in generate_srt_file(fs, Join(path, srt_name), times, texts, overflow_checks) :
         /\ fs' = o.fs
         /\ lines' = o.lines
         /\ IF o.panic THEN pc' = "failed" /\ UNCHANGED completed
            ELSE pc' = "mux" /\ completed' = completed \cup {"generate"}
    /\ UNCHANGED <<path, overflow_checks, html, video_type, link, video_name, srt_name,
                   times, texts, total_size, downloaded, received, nchunks, gets, run,
                   mux, dl, prev>>

\* The files ffmpeg is given: -i video_name -i subtitle_name, bare names
\* that the operating system resolves against the working directory.
MuxInputs(video, subtitle) ==
    [called |-> TRUE, video |-> ResolveRelative(video), subtitle |-> ResolveRelative(subtitle)]

\* The file ffmpeg writes with -y when it can read both inputs.
Muxed == File(<<[muxed |-> TRUE]>>)

\* embed_subtitle(&video_name, &srt_name): spawn().unwrap(), then the exit
\* status is logged and ignored.
embed_subtitle ==
    /\ pc = "mux"
    /\ started' = Append(started, "mux")
    /\ \E spawned \in BOOLEAN :
         IF spawned
         THEN /\ mux' = MuxInputs(video_name, srt_name)
              /\ \E status \in {"zero", "nonzero"} :
                   fs' = IF /\ status = "zero"
                            /\ Exists(fs, mux'.video)
                            /\ Exists(fs, mux'.subtitle)
                         THEN [fs EXCEPT ![ResolveRelative(OutputName)] = Muxed]
                         ELSE fs
              /\ completed' = completed \cup {"mux"}
              /\ pc' = "done"
         ELSE pc' = "failed" /\ UNCHANGED <<mux, fs, completed>>
    /\ UNCHANGED <<path, overflow_checks, html, video_type, link, video_name, srt_name,
                   times, texts, lines, total_size, downloaded, received, nchunks, gets,
                   run, dl, prev>>

\* The process has ended; the program is started again with the same
\* arguments.  prev keeps how download_video ended and the file it left.
NewRun ==
    /\ pc \in {"done", "failed"}
    /\ run < MaxRuns
    /\ run' = run + 1
    /\ prev' = [kind |-> dl.kind,
                file |-> IF UrlParses(link) THEN fs[SavedPath] ELSE NoFile]
    /\ pc' = "fetch"
    /\ link' = EmptyLink
    /\ video_name' = <<>>
    /\ srt_name' = <<>>
    /\ times' = <<>>
    /\ texts' = <<>>
    /\ lines' = <<>>
    /\ total_size' = 0
    /\ downloaded' = 0
    /\ received' = 0
    /\ nchunks' = 0
    /\ gets' = 0
    /\ started' = <<>>
    /\ completed' = {}
    /\ mux' = NoMux
    /\ dl' = NoOutcome
    /\ UNCHANGED <<fs, path, overflow_checks, html, video_type>>

Next ==
    \/ FetchPage
    \/ ResolveLink
    \/ DownloadBadUrl
    \/ DownloadExisting
    \/ DownloadRequest
    \/ ChunkReceived
    \/ ChunkReadError
    \/ ChunkWriteError
    \/ StreamEnd
    \/ DeriveSrtName
    \/ ParseTranscriptStep
    \/ GenerateSubtitle
    \/ embed_subtitle
    \/ NewRun

Spec == Init /\ [][Next]_vars

(***************************************************************************)
(* The claims.                                                             *)
(***************************************************************************)
Range(s) == { s[i] : i \in 1..Len(s) }

IsPrefix(s, t) == Len(s) <= Len(t) /\ \A i \in 1..Len(s) : s[i] = t[i]

\* The cues C1 specifies for the entries (ts[i], xs[i]), over the integers.
ExpectedCues(ts, xs) ==
    [i \in 1..Len(xs) |->
       [index |-> i,
        start |-> ts[i],
        end   |-> IF i < Len(xs) THEN ts[i + 1] ELSE ts[i] + LastCueMs,
        text  |-> xs[i]]]

\* The call of SpecSubtitle that just ended found no file at the
\* destination, had at least one entry, and returned.
WroteFresh ==
    /\ pc # "subtitle_first"
    /\ dl.kind = "returned"
    /\ ~prev.file.exists
    /\ Len(texts) >= 1

\* C1: for every non-empty sequence of entries and a destination at which no
\* file exists, generate_srt_file writes one cue per entry, in order, with
\* the entry's text; cue i runs from times[i] to times[i+1], and the last
\* cue ends at times[last] + 3000.
C1_CuesAsSpecified ==
    WroteFresh => fs[SubtitleDest] = File(ExpectedCues(times, texts))

\* C1, short of the overflow: the same statement for entries whose last
\* time is at most i64::MAX - 3000.
C1_CuesAsSpecifiedInRange ==
    (WroteFresh /\ times[Len(times)] + LastCueMs <= I64_MAX)
        => fs[SubtitleDest] = File(ExpectedCues(times, texts))

\* C2: every cue generate_srt_file builds from the entries parse_transcript
\* produced has end_time_ms > start_time_ms.
C2_PositiveDuration ==
    \A i \in 1..Len(lines) : lines[i].end > lines[i].start

\* C3: a call of generate_srt_file that finds a file at the destination
\* returns successfully, writes nothing and leaves the file as it was; so a
\* second call, with the same or other entries, leaves what the first wrote.
C3_ExistingUntouched ==
    (pc # "subtitle_first" /\ prev.file.exists)
        => /\ dl.kind = "returned"
           /\ fs[SubtitleDest] = prev.file
           /\ lines = <<>>

\* A second call with other entries, on the two cues the first call wrote.
C3_Witness ==
    /\ pc = "subtitle_end"
    /\ prev.kind = "returned"
    /\ prev.file.exists
    /\ Len(prev.file.data) = 2
    /\ prev.file.data[1].text = "Hello"
    /\ Len(times) = 1
    /\ times[1] # prev.file.data[1].start
    /\ fs[SubtitleDest] = prev.file

\* C4 as stated: a second run of download_video on the same URL and
\* directory issues no GET, whatever the first run came to.
C4_NoGetOnSecondRun ==
    (run >= 2 /\ prev.kind # "none") => gets = 0

\* C4 as amended: when the first run left a file at the destination (it
\* returned Ok, or it failed inside the chunk loop), the second run issues no
\* GET and returns the derived file name.
C4_NoGetWhenFileLeft ==
    (run >= 2 /\ prev.file.exists)
        => /\ gets = 0
           /\ dl.kind \in {"none", "existing"}
           /\ "download" \in Range(started) => dl.kind = "existing"
           /\ dl.kind = "existing"
                => video_name = FileNameOf(link) /\ "download" \in completed

\* The second run short-circuits after a first run that returned Ok.
C4_Witness ==
    /\ run = 2
    /\ prev.kind = "ok"
    /\ dl.kind = "existing"
    /\ gets = 0
    /\ video_name = FileNameOf(link)

\* C5: when the destination does not exist and the response reports no
\* content length, download_video returns the "failed to get content length"
\* error naming the URL, and the file system is as it was before the call.
C5_NoLengthNoFile ==
    [][(dl'.kind = "err_length" /\ dl.kind # "err_length")
         => /\ pc = "download"
            /\ ~Exists(fs, SavedPath)
            /\ gets' = gets + 1
            /\ dl'.url = link
            /\ pc' = "failed"
            /\ fs' = fs
            /\ ~Exists(fs', SavedPath)]_vars

\* The run has failed on the missing content length.
C5_Witness ==
    /\ dl.kind = "err_length"
    /\ dl.url = link
    /\ pc = "failed"
    /\ gets = 1
    /\ ~Exists(fs, SavedPath)

\* C6: the progress counter is min(sum of the chunk lengths so far, total):
\* never above the total, never decreasing; and when the chunks sum exactly
\* to the total, the counter ends at the total and the file holds that many
\* bytes.
C6_ProgressCapped ==
    /\ [](/\ downloaded = Min(received, total_size)
          /\ downloaded <= total_size
          /\ (dl.kind = "ok" /\ received = total_size)
               => /\ downloaded = total_size
                  /\ Len(fs[SavedPath].data) = total_size)
    /\ [][(pc = "chunks" /\ pc' = "chunks") => downloaded' >= downloaded]_vars

\* The bytes received overshoot the advertised total.
C6_Witness ==
    /\ dl.kind = "ok"
    /\ total_size > 0
    /\ received > total_size
    /\ downloaded = total_size
    /\ Len(fs[SavedPath].data) = received

\* The anchors of the page whose inner HTML contains the tier's marker.
Matching ==
    { i \in 1..Len(html.anchors) : Contains(html.anchors[i].label, Marker(video_type)) }

FirstMatching == CHOOSE i \in Matching : \A j \in Matching : i <= j

StepAt ==
    CASE pc = "fetch" -> 1
      [] pc = "resolve" -> 2
      [] pc \in {"download", "chunks"} -> 3
      [] pc = "derive" -> 4
      [] pc = "parse" -> 5
      [] pc = "generate" -> 6
      [] pc = "mux" -> 7
      [] OTHER -> 8

\* C8: the steps of a run happen in the fixed order, each one only after the
\* one before it completed successfully; once a step has failed no later
\* step is executed, so the mux is not invoked after a failed download or a
\* failed transcript parse.
C8_SequentialPipeline ==
    /\ [](/\ IsPrefix(started, PipelineOrder)
          /\ \A i \in 1..(Len(started) - 1) : started[i] \in completed
          /\ pc # "failed" => \A i \in 1..(StepAt - 1) : PipelineOrder[i] \in completed
          /\ pc = "failed" => started # <<>> /\ started[Len(started)] \notin completed
          /\ mux.called => {"download", "parse"} \subseteq completed)
    /\ [][(pc = "failed" /\ run' = run)
            => /\ started' = started
               /\ completed' = completed
               /\ mux' = mux
               /\ fs' = fs]_vars

\* A run that failed in parse_transcript: five steps started, no mux.
C8_Witness ==
    /\ pc = "failed"
    /\ started = SubSeq(PipelineOrder, 1, 5)
    /\ "download" \in completed
    /\ ~mux.called

\* The destination of the page's HD link, the same in every run.
PageSavedPath == Join(path, FileNameOf(parse_video(html.anchors, "HD").link))

\* C9: a download that fails on a chunk read or write leaves the bytes
\* written so far as the destination file; the next run short-circuits on
\* it: Ok with the file name, no GET, the partial file unmodified, and the
\* pipeline goes on.
C9_ResumesOnPartialFile ==
    /\ dl.kind \in {"err_read", "err_write"}
         => /\ Exists(fs, SavedPath)
            /\ Len(fs[SavedPath].data) >= received
            /\ dl.kind = "err_read" => Len(fs[SavedPath].data) = received
    /\ prev.kind \in {"err_read", "err_write"}
         => /\ prev.file.exists
            /\ fs[PageSavedPath] = prev.file
            /\ gets = 0
            /\ pc # "chunks"
            /\ "download" \in Range(started)
                 => /\ dl.kind = "existing"
                    /\ video_name = FileNameOf(link)
                    /\ "download" \in completed

\* After a failed chunk write the next run reached the mux on the partial file.
C9_Witness ==
    /\ prev.kind = "err_write"
    /\ Len(prev.file.data) >= 1
    /\ dl.kind = "existing"
    /\ gets = 0
    /\ pc = "done"
    /\ mux.called
    /\ fs[PageSavedPath] = prev.file

\* C10: for every output directory, the video and the subtitle file handed
\* to the mux tool are the files written at <path>/<video name> and
\* <path>/<subtitle name>.
C10_MuxInputsAreOutputs ==
    mux.called
        => /\ mux.video = Join(path, video_name)
           /\ mux.subtitle = Join(path, srt_name)

====
